---- MODULE Spec2Model ----
(***************************************************************************)
(* Model of the file storage and metadata lifecycle of the Dropbox-like    *)
(* backend: the soft-delete extension of the Prisma client, the storage    *)
(* providers and their router, and the FilesService use cases.             *)
(*                                                                         *)
(* Strings that the code takes apart (paths, URLs, storage keys) are       *)
(* sequences of tokens: "./uploads" is <<".", "uploads">>, the path        *)
(* "uploads/file-1" is <<"uploads", "file-1">>, an absolute path starts    *)
(* with the token "/", a URL starts with its origin.  Sizes are in MiB.    *)
(***************************************************************************)
EXTENDS Integers, Sequences, FiniteSets, TLC

VARIABLES
    env,              \* the process environment read through ConfigService
    storageType,      \* StorageService.storageType, fixed by the constructor
    uploadDirectory,  \* LocalStorageProvider.uploadDirectory (raw config string)
    cloudfrontUrl,    \* S3StorageProvider.cloudfrontUrl (Undef when not configured)
    unknownArgs,      \* what the query engine does with an argument the operation does not take
    userTable,        \* table User: id -> row or NoRow
    fileTable,        \* table File: id -> row or NoRow
    localFs,          \* files on the local disk (normalized paths)
    s3Objects,        \* object keys in the bucket
    seq,              \* upload requests received so far (names the temp file and the key)
    clock,            \* the database / process clock
    last,             \* outcome of the last FilesService call
    storeLast,        \* outcome of the last direct call on the extended Prisma client
    calls             \* the calls in flight: process -> where it stands and what it holds

vars == <<env, storageType, uploadDirectory, cloudfrontUrl, unknownArgs, userTable,
          fileTable, localFs, s3Objects, seq, clock, last, storeLast, calls>>

----------------------------------------------------------------------------
(* Bounds of the model *)

MaxUploads == 1
MaxClock == 2
\* calls that may be in flight at the same time
MaxCalls == 2

(* Program constants (MiB) *)

MAX_FILE_SIZE == 100
MAX_VIDEO_SIZE == 500
MAX_STORAGE_QUOTA == 10240
MAX_FILENAME_LENGTH == 255

Undef == "undefined"
Null == "null"
NoRow == [id |-> "norow"]

Users == {"u1", "u2"}
SOFT_DELETE_MODELS == {"User", "File"}

ALLOWED_MIME_TYPES == {"image/png", "video/mp4", "text/plain", "application/zip"}
VIDEO_MIME_TYPES == {"video/mp4"}

----------------------------------------------------------------------------
(* Paths, keys and URLs *)

\* path.normalize as far as the code needs it: "." segments disappear
Normalize(p) == SelectSeq(p, LAMBDA t : t # ".")

\* path.join(a, b)
PathJoin(a, b) == Normalize(a \o b)

\* path.isAbsolute(p)
IsAbsolute(p) == Len(p) > 0 /\ p[1] = "/"

\* String.prototype.startsWith on the raw strings
StartsWith(s, prefix) ==
    /\ Len(prefix) <= Len(s)
    /\ SubSeq(s, 1, Len(prefix)) = prefix

\* multer diskStorage: path.join(destination, filename), destination "./uploads",
\* filename "file-<timestamp>-<random><ext>"
MULTER_DESTINATION == <<".", "uploads">>
TempPath(n) == PathJoin(MULTER_DESTINATION, <<"file-" \o ToString(n)>>)

\* generateStorageKey: users/{userId}/{year}/{month}/{timestamp}-{random}-{name}{ext};
\* the year, month, timestamp, random and name of request n are one token
generateStorageKey(userId, n) == <<"users", userId, "key-" \o ToString(n)>>

BUCKET_ORIGIN == "https://bucket.s3.region.amazonaws.com"
CLOUDFRONT_ORIGIN == "https://cdn.cloudfront.net"

\* String.prototype.includes(needle) for the two needles extractStorageKey looks for:
\* the bucket URL the provider builds has the region between "s3." and "amazonaws.com"
Includes(p, needle) ==
    \E i \in 1..Len(p) :
        \/ needle = "cloudfront.net" /\ p[i] = CLOUDFRONT_ORIGIN
        \/ needle = "s3.amazonaws.com" /\ p[i] = "https://bucket.s3.amazonaws.com"

\* extractStorageKey: the URL's pathname without its leading slash, else the path itself
extractStorageKey(p) ==
    IF Includes(p, "s3.amazonaws.com") \/ Includes(p, "cloudfront.net")
    THEN Tail(p)
    ELSE p

----------------------------------------------------------------------------
(* Storage providers.  A call returns [threw, value, fs, s3]: whether it threw,
   what it returned, and the disk and the bucket after it. *)

StorageResult(threw, value, fs, s3) ==
    [threw |-> threw, value |-> value, fs |-> fs, s3 |-> s3]

\* LocalStorageProvider.getFilePath: an absolute key is taken as it is
getFilePath(key) == IF IsAbsolute(key) THEN key ELSE PathJoin(uploadDirectory, key)

\* LocalStorageProvider.fileExists / file.util fileExists: fs.access
LocalFileExists(fs, key) == Normalize(getFilePath(key)) \in fs

\* LocalStorageProvider.uploadFile; fsFails: copyFile throws (disk full, permissions)
LocalUploadFile(fs, s3, file, key, fsFails) ==
    LET filePath == PathJoin(uploadDirectory, key)
    IN  IF StartsWith(file.path, uploadDirectory)
        THEN StorageResult(FALSE, file.path, fs, s3)
        ELSE IF fsFails \/ Normalize(file.path) \notin fs
        THEN StorageResult(TRUE, Undef, fs, s3)
        ELSE StorageResult(FALSE, filePath,
                           IF file.path # filePath
                           THEN (fs \cup {filePath}) \ {Normalize(file.path)}
                           ELSE fs \cup {filePath},
                           s3)

\* a deleteFile that unlinks without looking whether the file is there
LocalDeleteFileUnchecked(fs, s3, key, fsFails) ==
    IF fsFails \/ Normalize(getFilePath(key)) \notin fs
    THEN StorageResult(TRUE, Undef, fs, s3)
    ELSE StorageResult(FALSE, TRUE, fs \ {Normalize(getFilePath(key))}, s3)

\* LocalStorageProvider.deleteFile; fsFails: unlink throws, which the provider catches
LocalDeleteFile(fs, s3, key, fsFails) ==
    IF LocalFileExists(fs, key)
    THEN IF fsFails
         THEN StorageResult(FALSE, FALSE, fs, s3)
         ELSE StorageResult(FALSE, TRUE, fs \ {Normalize(getFilePath(key))}, s3)
    ELSE StorageResult(FALSE, FALSE, fs, s3)

\* S3StorageProvider.getFileUrl
S3GetFileUrl(key) ==
    IF cloudfrontUrl # Undef THEN <<cloudfrontUrl>> \o key ELSE <<BUCKET_ORIGIN>> \o key

\* S3StorageProvider.uploadFile; s3Fails: the PutObject request throws
S3UploadFile(fs, s3, file, key, s3Fails) ==
    IF Normalize(file.path) \notin fs \/ s3Fails
    THEN StorageResult(TRUE, Undef, fs, s3)
    ELSE StorageResult(FALSE, S3GetFileUrl(key), fs \ {Normalize(file.path)}, s3 \cup {key})

\* S3StorageProvider.deleteFile; s3Fails: the DeleteObject request throws, which the
\* provider catches.  DeleteObject succeeds whether or not the key names an object.
S3DeleteFile(fs, s3, key, s3Fails) ==
    IF s3Fails
    THEN StorageResult(FALSE, FALSE, fs, s3)
    ELSE StorageResult(FALSE, TRUE, fs, s3 \ {key})

\* S3StorageProvider.fileExists: HeadObject
S3FileExists(s3, key) == key \in s3

----------------------------------------------------------------------------
(* StorageService: the router over the two providers *)

S3_CONFIGURATION == {"AWS_S3_BUCKET_NAME", "AWS_S3_REGION",
                     "AWS_S3_ACCESS_KEY_ID", "AWS_S3_SECRET_ACCESS_KEY"}

\* !!value of a configuration string: neither undefined nor empty
Truthy(value) == value \notin {Undef, ""}

\* StorageService.hasS3Configuration
hasS3Configuration(e) == \A name \in S3_CONFIGURATION : Truthy(e[name])

\* a selection that takes the configured type without looking at the credentials
determineStorageTypeUnchecked(e) ==
    IF e.STORAGE_TYPE = "s3" THEN "s3" ELSE "local"

\* StorageService.determineStorageType
determineStorageType(e) ==
    IF e.STORAGE_TYPE = "s3" /\ hasS3Configuration(e) THEN "s3" ELSE "local"

\* a router that does not fall back to the local provider
StorageUploadFileNoRetry(fs, s3, file, key, s3Fails, fsFails) ==
    LET r == IF storageType = "s3"
             THEN S3UploadFile(fs, s3, file, key, s3Fails)
             ELSE LocalUploadFile(fs, s3, file, key, fsFails)
    IN  [r EXCEPT !.value = IF r.threw THEN Undef
                            ELSE [key |-> key, url |-> r.value, storageType |-> storageType]]

\* StorageService.uploadFile
StorageUploadFile(fs, s3, file, key, s3Fails, fsFails) ==
    IF storageType = "s3"
    THEN LET r == S3UploadFile(fs, s3, file, key, s3Fails)
         IN  IF r.threw
             THEN LET l == LocalUploadFile(fs, s3, file, key, fsFails)
                  IN  [l EXCEPT !.value = IF l.threw THEN Undef
                                          ELSE [key |-> key, url |-> l.value, storageType |-> "local"]]
             ELSE [r EXCEPT !.value = [key |-> key, url |-> r.value, storageType |-> "s3"]]
    ELSE LET l == LocalUploadFile(fs, s3, file, key, fsFails)
         IN  [l EXCEPT !.value = IF l.threw THEN Undef
                                 ELSE [key |-> key, url |-> l.value, storageType |-> "local"]]

\* StorageService.deleteFile
StorageDeleteFile(fs, s3, key, s3Fails, fsFails) ==
    IF storageType = "s3"
    THEN LET r == S3DeleteFile(fs, s3, key, s3Fails)
         IN  IF ~r.value
             THEN LocalDeleteFile(r.fs, r.s3, key, fsFails)
             ELSE r
    ELSE LocalDeleteFile(fs, s3, key, fsFails)

\* StorageService.fileExists
StorageFileExists(fs, s3, key) ==
    IF storageType = "s3"
    THEN IF ~S3FileExists(s3, key) THEN LocalFileExists(fs, key) ELSE TRUE
    ELSE LocalFileExists(fs, key)

----------------------------------------------------------------------------
(* The metadata store: Prisma client with the soft-delete extension.

   A table maps every id to its row or to NoRow.  A DateTime? column holds
   NullDate or Date(t).  The arguments of a call are [where, data]: where is
   [id, userId, deletedAt], each Undef when the caller's filter does not
   mention it (deletedAt may also be Null, "notNull" or "any" for {});
   data is <<>> when the call has no data and <<d>> for { deletedAt: d }. *)

NullDate == <<>>
Date(t) == <<t>>

FileId(n) == "f" \o ToString(n)

Where(id, userId, deletedAt) == [id |-> id, userId |-> userId, deletedAt |-> deletedAt]
Args(where, data) == [where |-> where, data |-> data]

READ_OPERATIONS == {"findUnique", "findFirst", "findMany", "count", "aggregate"}

\* a hook that rewrites deletes but injects no read filter
AllOperationsArgsNoFilter(model, operation, args, now) ==
    IF model \in SOFT_DELETE_MODELS /\ operation \in {"delete", "deleteMany"}
    THEN [args EXCEPT !.data = <<Date(now)>>]
    ELSE args

\* $allOperations up to its call of query(args): the arguments it hands on.
\* The hook also assigns its local variable `operation`; query takes args only.
AllOperationsArgs(model, operation, args, now) ==
    IF model \in SOFT_DELETE_MODELS
    THEN LET filtered ==
                 IF operation \in READ_OPERATIONS /\ args.where.deletedAt = Undef
                 THEN [args EXCEPT !.where.deletedAt = Null]
                 ELSE args
         IN  IF operation \in {"delete", "deleteMany"}
             THEN [filtered EXCEPT !.data = <<Date(now)>>]
             ELSE filtered
    ELSE args

Rows(table) == {id \in DOMAIN table : table[id] # NoRow}

Matches(row, where) ==
    /\ where.id = Undef \/ row.id = where.id
    /\ where.userId = Undef \/ ("userId" \in DOMAIN row /\ row.userId = where.userId)
    /\ CASE where.deletedAt = Null -> row.deletedAt = NullDate
         [] where.deletedAt = "notNull" -> row.deletedAt # NullDate
         [] OTHER -> TRUE

Select(table, where) == {id \in Rows(table) : Matches(table[id], where)}

RECURSIVE SumSize(_, _)
SumSize(table, ids) ==
    IF ids = {} THEN 0
    ELSE LET id == CHOOSE x \in ids : TRUE
         IN  (IF "size" \in DOMAIN table[id] THEN table[id].size ELSE 0)
             + SumSize(table, ids \ {id})

\* the row a single-row read returns: the oldest matching one
First(table, ids) ==
    IF ids = {} THEN {}
    ELSE {CHOOSE id \in ids : \A o \in ids : table[id].createdAt <= table[o].createdAt}

QueryResult(threw, error, rows, table) ==
    [threw |-> threw, error |-> error, rows |-> rows, table |-> table]

\* Arguments the operation does not take: neither a read nor a delete takes `data`
TakesData(operation) == operation \in {"create", "update", "updateMany"}

\* query(args): the engine runs the operation the caller invoked, with the given args
Query(table, operation, args) ==
    LET hit == Select(table, args.where)
    IN  IF args.data # <<>> /\ ~TakesData(operation) /\ unknownArgs = "reject"
        THEN QueryResult(TRUE, "PrismaClientValidationError", {}, table)
        ELSE CASE operation \in {"findUnique", "findFirst"} ->
                      QueryResult(FALSE, "", First(table, hit), table)
               [] operation \in {"findMany", "count", "aggregate"} ->
                      QueryResult(FALSE, "", hit, table)
               [] operation = "update" ->
                      IF hit = {}
                      THEN QueryResult(TRUE, "P2025", {}, table)
                      ELSE QueryResult(FALSE, "", hit,
                               [id \in DOMAIN table |->
                                   IF id \in hit
                                   THEN [table[id] EXCEPT !.deletedAt = args.data[1]]
                                   ELSE table[id]])
               [] operation = "delete" ->
                      IF hit = {}
                      THEN QueryResult(TRUE, "P2025", {}, table)
                      ELSE QueryResult(FALSE, "", hit,
                               [id \in DOMAIN table |-> IF id \in hit THEN NoRow ELSE table[id]])
               [] operation = "deleteMany" ->
                      QueryResult(FALSE, "", hit,
                          [id \in DOMAIN table |-> IF id \in hit THEN NoRow ELSE table[id]])

\* a call on a model of the extended client: the hook, then the engine
PrismaCall(table, model, operation, args, now) ==
    Query(table, operation, AllOperationsArgs(model, operation, args, now))

\* $allModels.forceDelete(where)
forceDelete(table, model, where, now) ==
    PrismaCall(table, model, "delete", Args(where, <<>>), now)

\* a restore that stamps the marker instead of clearing it
restoreStamp(table, model, where, now) ==
    Query(table, "update", Args(where, <<Date(now)>>))

\* $allModels.restore(where)
restore(table, model, where, now) ==
    PrismaCall(table, model, "update", Args(where, <<NullDate>>), now)

\* $allModels.findManyWithDeleted(args)
findManyWithDeleted(table, model, args, now) ==
    LET originalWhere == [args.where EXCEPT !.deletedAt = Undef]
    IN  PrismaCall(table, model, "findMany", [args EXCEPT !.where = originalWhere], now)

\* onDelete: Cascade on File.user: rows of File whose user row is gone go with it
Cascade(users, files) ==
    [id \in DOMAIN files |->
        IF files[id] # NoRow /\ users[files[id].userId] = NoRow THEN NoRow ELSE files[id]]

----------------------------------------------------------------------------
(* Exceptions.  An error is [class, code]; NoError when nothing was thrown. *)

NoError == [class |-> "", code |-> ""]
Thrown(class, code) == [class |-> class, code |-> code]

\* the static factories of BusinessException all return new AppException(code, ...)
AppException(code) == Thrown("AppException", code)

\* `error instanceof BusinessException`: BusinessException only holds the static
\* factories; AppException extends HttpException
InstanceOfBusinessException(error) == error.class = "BusinessException"

----------------------------------------------------------------------------
(* FilesService *)

\* file.util getMaxFileSize
getMaxFileSize(mimeType) ==
    IF mimeType \in VIDEO_MIME_TYPES THEN MAX_VIDEO_SIZE ELSE MAX_FILE_SIZE

\* BusinessException.fileTypeNotAllowed and BusinessException.fileTooLarge are
\* not among the static factories: calling them throws a TypeError; the code
\* names the check that raised it
MissingFactory(code) == Thrown("TypeError", code)

\* a validation that does not look at the size
validateFileNoSize(file) ==
    IF file.mimetype \notin ALLOWED_MIME_TYPES
    THEN MissingFactory("FILE_TYPE_NOT_ALLOWED")
    ELSE IF file.nameLength > MAX_FILENAME_LENGTH
    THEN AppException("FILE_UPLOAD_FAILED")
    ELSE NoError

\* FilesService.validateFile: the error it throws, NoError when the file passes
validateFile(file) ==
    IF file.mimetype \notin ALLOWED_MIME_TYPES
    THEN MissingFactory("FILE_TYPE_NOT_ALLOWED")
    ELSE IF file.size > getMaxFileSize(file.mimetype)
    THEN MissingFactory("FILE_TOO_LARGE")
    ELSE IF file.nameLength > MAX_FILENAME_LENGTH
    THEN AppException("FILE_UPLOAD_FAILED")
    ELSE NoError

\* prisma.file.aggregate({ where: { userId }, _sum: { size: true } })
\* in checkUserStorageQuota: result._sum.size || 0
currentTotalSize(table, userId, now) ==
    SumSize(table,
            PrismaCall(table, "File", "aggregate",
                       Args(Where(Undef, userId, Undef), <<>>), now).rows)

\* a quota check that lets every error of its try block out
checkUserStorageQuotaStrict(table, userId, newFileSize, aggFails, now) ==
    IF aggFails
    THEN Thrown("Error", "DB")
    ELSE IF currentTotalSize(table, userId, now) + newFileSize > MAX_STORAGE_QUOTA
    THEN AppException("FILE_UPLOAD_FAILED")
    ELSE NoError

\* FilesService.checkUserStorageQuota: the error that leaves it, NoError when it returns.
\* aggFails: the aggregation query throws
checkUserStorageQuota(table, userId, newFileSize, aggFails, now) ==
    LET inTry ==
            IF aggFails
            THEN Thrown("Error", "DB")
            ELSE IF currentTotalSize(table, userId, now) + newFileSize > MAX_STORAGE_QUOTA
            THEN AppException("FILE_UPLOAD_FAILED")
            ELSE NoError
    IN  IF inTry # NoError /\ InstanceOfBusinessException(inTry)
        THEN inTry
        ELSE NoError

\* the catch block of FilesService.uploadFile: what the caller gets for `error`
uploadFileCatch(error) ==
    IF InstanceOfBusinessException(error) \/ error.class = "BadRequestException"
    THEN error
    ELSE AppException("FILE_UPLOAD_FAILED")

NoFile == [mimetype |-> "", size |-> 0, nameLength |-> 0, path |-> <<>>]

Outcome(op, userId, fileId, file, error, cause, path, total) ==
    [op |-> op, userId |-> userId, fileId |-> fileId, file |-> file,
     result |-> error.code, class |-> error.class, cause |-> cause, path |-> path,
     total |-> total,
     fileIds |-> <<>>, files |-> <<>>, deletedCount |-> 0, failedFiles |-> <<>>,
     fileType |-> Undef]

FileRow(id, file, path, userId, now) ==
    [id |-> id, size |-> file.size, mimeType |-> file.mimetype, path |-> path,
     userId |-> userId, createdAt |-> now, deletedAt |-> NullDate]

\* a create that checks the quota in the transaction that writes the row
fileCreateWithinQuota(table, users, row, dbFails) ==
    IF \/ dbFails
       \/ users[row.userId] = NoRow
       \/ SumSize(table, {id \in Rows(table) : table[id].userId = row.userId
                                                /\ table[id].deletedAt = NullDate})
             + row.size > MAX_STORAGE_QUOTA
    THEN QueryResult(TRUE, "DB", {}, table)
    ELSE QueryResult(FALSE, "", {row.id}, [table EXCEPT ![row.id] = row])

\* prisma.file.create: refused when the user row does not exist (foreign key) or,
\* dbFails, when the database is unavailable; `create` passes the hook unchanged
fileCreate(table, users, row, dbFails) ==
    IF dbFails \/ users[row.userId] = NoRow
    THEN QueryResult(TRUE, "DB", {}, table)
    ELSE QueryResult(FALSE, "", {row.id}, [table EXCEPT ![row.id] = row])

\* the disk once diskStorage has written the request's file to its temp path
Received(fs, file) == fs \cup {Normalize(file.path)}

\* FilesService.uploadFile, after the HTTP layer (multer diskStorage) has written
\* the temp file of request n: what the call leaves behind
uploadFile(n, file, userId, s3Fails, fsFails, dbFails, aggFails) ==
    LET fs0 == Received(localFs, file)
        now == clock + 1
        id == FileId(n)
        invalid == validateFile(file)
        total == IF aggFails THEN -1 ELSE currentTotalSize(fileTable, userId, now)
        quota == checkUserStorageQuota(fileTable, userId, file.size, aggFails, now)
        storageKey == generateStorageKey(userId, n)
        up == StorageUploadFile(fs0, s3Objects, file, storageKey, s3Fails, fsFails)
        created == fileCreate(fileTable, userTable,
                              FileRow(id, file, IF up.threw THEN <<>> ELSE up.value.url, userId, now),
                              dbFails)
        failed(error, cause, fs, s3, path, tot) ==
            [fs |-> fs, s3 |-> s3, table |-> fileTable, clock |-> clock,
             out |-> Outcome("uploadFile", userId, id, file, uploadFileCatch(error), cause, path, tot)]
    IN  IF invalid # NoError
        THEN failed(invalid, invalid.code, fs0, s3Objects, <<>>, -1)
        ELSE IF quota # NoError
        THEN failed(quota, "QUOTA", fs0, s3Objects, <<>>, total)
        ELSE IF up.threw
        THEN failed(Thrown("Error", "STORAGE"), "STORAGE", up.fs, up.s3, <<>>, total)
        ELSE IF created.threw
        THEN failed(Thrown("Error", "DB"), "DB", up.fs, up.s3, up.value.url, total)
        ELSE [fs |-> up.fs, s3 |-> up.s3, table |-> created.table, clock |-> now,
              out |-> Outcome("uploadFile", userId, id, file, NoError, "", up.value.url, total)]

\* a service that lets every caller through
NotOwnerNever(file, userId) == FALSE

\* file.userId !== userId
NotOwner(file, userId) == file.userId # userId

\* the mime types that start with 'image/' and FILE_UPLOAD.DOCUMENT_MIME_TYPES
IMAGE_MIME_TYPES == {"image/png"}
DOCUMENT_MIME_TYPES == {"text/plain"}

\* file.util getFileTypeCategory
getFileTypeCategory(mimeType) ==
    IF mimeType \in VIDEO_MIME_TYPES THEN "video"
    ELSE IF mimeType \in IMAGE_MIME_TYPES THEN "image"
    ELSE IF mimeType \in DOCUMENT_MIME_TYPES THEN "document"
    ELSE IF mimeType = "application/zip" THEN "archive"
    ELSE "other"

\* where.mimeType as the switch of getUserFiles sets it: no condition for a
\* fileType that is not given or is none of the four cases
MimeTypeFilter(mimeType, fileType) ==
    CASE fileType = "video" -> mimeType \in VIDEO_MIME_TYPES
      [] fileType = "image" -> mimeType \in IMAGE_MIME_TYPES
      [] fileType = "document" -> mimeType \in DOCUMENT_MIME_TYPES
      [] fileType = "archive" -> mimeType = "application/zip"
      [] OTHER -> TRUE

\* orderBy: { createdAt: 'desc' }
RECURSIVE OrderByCreatedAtDesc(_, _)
OrderByCreatedAtDesc(table, ids) ==
    IF ids = {} THEN <<>>
    ELSE LET newest == CHOOSE id \in ids :
                          \A o \in ids : table[o].createdAt <= table[id].createdAt
         IN  <<newest>> \o OrderByCreatedAtDesc(table, ids \ {newest})

\* orderBy: { createdAt: 'asc' }
RECURSIVE OrderByCreatedAtAsc(_, _)
OrderByCreatedAtAsc(table, ids) ==
    IF ids = {} THEN <<>>
    ELSE LET oldest == CHOOSE id \in ids :
                          \A o \in ids : table[id].createdAt <= table[o].createdAt
         IN  <<oldest>> \o OrderByCreatedAtAsc(table, ids \ {oldest})

\* a listing that returns the oldest file first
getUserFilesOldestFirst(table, userId, fileType, now) ==
    OrderByCreatedAtAsc(table,
        {id \in PrismaCall(table, "File", "findMany",
                           Args(Where(Undef, userId, Undef), <<>>), now).rows :
            MimeTypeFilter(table[id].mimeType, fileType)})

\* FilesService.getUserFiles: the ids of the rows it returns, in order
getUserFiles(table, userId, fileType, now) ==
    OrderByCreatedAtDesc(table,
        {id \in PrismaCall(table, "File", "findMany",
                           Args(Where(Undef, userId, Undef), <<>>), now).rows :
            MimeTypeFilter(table[id].mimeType, fileType)})

\* a getFileById that reads past the soft-delete hook
getFileByIdUnfiltered(table, fileId, userId, now) ==
    LET found == Query(table, "findUnique", Args(Where(fileId, Undef, Undef), <<>>)).rows
    IN  IF found = {}
        THEN AppException("FILE_NOT_FOUND")
        ELSE IF \E id \in found : table[id].userId # userId
        THEN AppException("FILE_NOT_OWNER")
        ELSE NoError

\* FilesService.getFileById: the error it throws, NoError when it returns the row
getFileById(table, fileId, userId, now) ==
    LET found == PrismaCall(table, "File", "findUnique",
                            Args(Where(fileId, Undef, Undef), <<>>), now).rows
    IN  IF found = {}
        THEN AppException("FILE_NOT_FOUND")
        ELSE IF \E id \in found : NotOwner(table[id], userId)
        THEN AppException("FILE_NOT_OWNER")
        ELSE NoError

\* FilesService.deleteFile called at time `now` on the disk fs, the bucket s3 and
\* the File table `table`: what the call leaves behind
deleteFileFrom(fs, s3, table, now, fileId, userId, s3Fails, fsFails) ==
    LET found == PrismaCall(table, "File", "findUnique",
                            Args(Where(fileId, Undef, Undef), <<>>), now).rows
        file == table[CHOOSE id \in found : TRUE]
        storageKey == extractStorageKey(file.path)
        gone == StorageDeleteFile(fs, s3, storageKey, s3Fails, fsFails)
        deleted == PrismaCall(table, "File", "delete",
                              Args(Where(fileId, Undef, Undef), <<>>), now)
        unchanged(error) ==
            [fs |-> fs, s3 |-> s3, table |-> table,
             out |-> Outcome("deleteFile", userId, fileId, NoFile, error, error.code, <<>>, -1)]
    IN  IF found = {}
        THEN unchanged(AppException("FILE_NOT_FOUND"))
        ELSE IF NotOwner(file, userId)
        THEN unchanged(AppException("FILE_NOT_OWNER"))
        ELSE IF deleted.threw
        THEN [fs |-> gone.fs, s3 |-> gone.s3, table |-> table,
              out |-> Outcome("deleteFile", userId, fileId, NoFile,
                              AppException("FILE_DELETE_FAILED"), deleted.error, file.path, -1)]
        ELSE [fs |-> gone.fs, s3 |-> gone.s3, table |-> deleted.table,
              out |-> Outcome("deleteFile", userId, fileId, NoFile, NoError, "", file.path, -1)]

\* FilesService.deleteFile: what the call leaves behind
deleteFile(fileId, userId, s3Fails, fsFails) ==
    deleteFileFrom(localFs, s3Objects, fileTable, clock + 1, fileId, userId, s3Fails, fsFails)

\* error.message of the exceptions the factories make
Message(code) ==
    CASE code = "FILE_NOT_FOUND" -> "File not found"
      [] code = "FILE_NOT_OWNER" -> "You can only delete your own files"
      [] code = "FILE_UPLOAD_FAILED" -> "File upload failed"
      [] code = "FILE_DELETE_FAILED" -> "File deletion failed"
      [] OTHER -> "Unknown error"

\* the loop of FilesService.deleteMultipleFiles over the ids still to do
RECURSIVE deleteMultipleFilesFrom(_, _, _, _, _, _, _, _)
deleteMultipleFilesFrom(fs, s3, table, now, fileIds, userId, s3Fails, fsFails) ==
    IF fileIds = <<>>
    THEN [fs |-> fs, s3 |-> s3, table |-> table, deletedCount |-> 0, failedFiles |-> <<>>]
    ELSE LET r == deleteFileFrom(fs, s3, table, now, Head(fileIds), userId, s3Fails, fsFails)
             rest == deleteMultipleFilesFrom(r.fs, r.s3, r.table, now, Tail(fileIds),
                                             userId, s3Fails, fsFails)
         IN  IF r.out.result = ""
             THEN [rest EXCEPT !.deletedCount = @ + 1]
             ELSE [rest EXCEPT !.failedFiles =
                      <<[fileId |-> Head(fileIds), reason |-> Message(r.out.result)]>> \o @]

\* FilesService.deleteMultipleFiles: what the call leaves behind
deleteMultipleFiles(fileIds, userId, s3Fails, fsFails) ==
    deleteMultipleFilesFrom(localFs, s3Objects, fileTable, clock + 1, fileIds, userId,
                            s3Fails, fsFails)

----------------------------------------------------------------------------
(* Initial state: the service has started; both users are registered; user u1
   has uploaded videos before, MAX_FILE_SIZE short of the quota in total. *)

UserRow(id) == [id |-> id, email |-> id, createdAt |-> 0, deletedAt |-> NullDate]

\* earlier uploads of u1: videos of the maximal size and one for the remainder
SeedTotal == MAX_STORAGE_QUOTA - MAX_FILE_SIZE
SeedCount == SeedTotal \div MAX_VIDEO_SIZE + 1
SeedNames == {"s" \o ToString(i) : i \in 1..SeedCount}
SeedSize(name) ==
    IF name = "s" \o ToString(SeedCount) THEN SeedTotal % MAX_VIDEO_SIZE ELSE MAX_VIDEO_SIZE
SeedFile(name) ==
    [mimetype |-> "video/mp4", size |-> SeedSize(name), nameLength |-> 8,
     path |-> PathJoin(MULTER_DESTINATION, <<"file-" \o name>>)]
\* what the upload of a seed file left in storage
SeedUpload(name) ==
    StorageUploadFile({SeedFile(name).path}, {}, SeedFile(name),
                      <<"users", "u1", "key-" \o name>>, FALSE, FALSE)

NewFileIds == {FileId(n) : n \in 1..MaxUploads}
FileIds == NewFileIds \cup {FileId(n) : n \in 1..MaxCalls} \cup SeedNames

StorageTypes == {"local", "s3"}
UploadDirectories == {<<".", "uploads">>, <<"uploads">>, <<"/", "srv", "uploads">>}
CloudfrontUrls == {Undef, CLOUDFRONT_ORIGIN}
UnknownArgs == {"reject", "ignore"}

NoOutcome == Outcome("", "", "", NoFile, NoError, "", <<>>, -1)

\* the processes that serve requests, and a process that serves none
Procs == 1..MaxCalls
Idle == [pc |-> "idle"]
NoCalls == [p \in Procs |-> Idle]
StoreOutcome(op, model, id, where, r, before, now) ==
    [op |-> op, model |-> model, id |-> id, where |-> where, threw |-> r.threw,
     rows |-> r.rows, before |-> before, now |-> now]
NoStoreOutcome ==
    StoreOutcome("", "", "", Where(Undef, Undef, Undef),
                 QueryResult(FALSE, "", {}, <<>>), NoRow, 0)

\* an environment that asks for `type`, with the credentials `credentials`
Environment(type, credentials) ==
    [name \in S3_CONFIGURATION \cup {"STORAGE_TYPE"} |->
        IF name = "STORAGE_TYPE" THEN type ELSE credentials[name]]

\* the two deployments: nothing configured, and S3 with every credential
Deployments ==
    {Environment(Undef, [name \in S3_CONFIGURATION |-> Undef]),
     Environment("s3", [name \in S3_CONFIGURATION |-> "set"])}

InitConfig ==
    /\ env \in Deployments
    /\ storageType = determineStorageType(env)
    /\ uploadDirectory \in UploadDirectories
    /\ cloudfrontUrl \in CloudfrontUrls
    /\ storageType = "local" => cloudfrontUrl = Undef
    /\ unknownArgs \in UnknownArgs

\* the tables, the disk and the bucket of a deployment in which u1 has uploaded
\* the seed files
InitData ==
    /\ userTable = [u \in Users |-> UserRow(u)]
    /\ fileTable = [id \in FileIds |->
                       IF id \in SeedNames
                       THEN FileRow(id, SeedFile(id), SeedUpload(id).value.url, "u1", 0)
                       ELSE NoRow]
    /\ localFs = UNION {SeedUpload(name).fs : name \in SeedNames}
    /\ s3Objects = UNION {SeedUpload(name).s3 : name \in SeedNames}
    /\ seq = 0
    /\ clock = 0
    /\ last = NoOutcome
    /\ storeLast = NoStoreOutcome
    /\ calls = NoCalls

Init == InitConfig /\ InitData

----------------------------------------------------------------------------
(* Requests to the FilesService *)

\* the files a request may carry: two that pass validateFile (an image at the
\* general cap, a video at the video cap) and one for each way of failing it
MimeTypes == {"image/png", "video/mp4", "application/x-sh"}
FileSizes == {MAX_FILE_SIZE, MAX_FILE_SIZE + 1, MAX_VIDEO_SIZE, MAX_VIDEO_SIZE + 1}
NameLengths == {MAX_FILENAME_LENGTH, MAX_FILENAME_LENGTH + 1}
UploadedFiles ==
    {f \in [mimetype : MimeTypes, size : FileSizes, nameLength : NameLengths] :
        \/ f.size = getMaxFileSize(f.mimetype) /\ f.mimetype \in ALLOWED_MIME_TYPES
        \/ f.size = getMaxFileSize(f.mimetype) + 1 /\ f.nameLength = MAX_FILENAME_LENGTH}

\* the outcomes of a call that can fail: both when it is reached, else only one
Faults(reached) == IF reached THEN BOOLEAN ELSE {FALSE}

config == <<env, storageType, uploadDirectory, cloudfrontUrl, unknownArgs>>

\* FileInterceptor: multer refuses a body over limits.fileSize and removes what
\* it had written of it; the handler is not called
multerLimit(n, file, userId) ==
    [fs |-> localFs, s3 |-> s3Objects, table |-> fileTable, clock |-> clock,
     out |-> Outcome("uploadFile", userId, FileId(n), file,
                     Thrown("PayloadTooLargeException", "LIMIT_FILE_SIZE"),
                     "LIMIT_FILE_SIZE", <<>>, -1)]

\* POST /files/upload: multer writes the temp file, then FilesService.uploadFile
Upload ==
    /\ seq < MaxUploads
    /\ \E userId \in Users, f \in UploadedFiles :
          LET n == seq + 1
              file == [mimetype |-> f.mimetype, size |-> f.size,
                       nameLength |-> f.nameLength, path |-> TempPath(n)]
              valid == validateFile(file) = NoError
          IN  \E aggFails \in Faults(valid), s3Fails \in Faults(valid /\ storageType = "s3") :
              \E fsFails \in Faults(valid /\ (storageType = "local" \/ s3Fails)) :
              \E dbFails \in Faults(valid /\ ~fsFails) :
                 \E r \in {IF file.size > MAX_VIDEO_SIZE
                          THEN multerLimit(n, file, userId)
                          ELSE uploadFile(n, file, userId, s3Fails, fsFails, dbFails, aggFails)} :
                     /\ seq' = n
                     /\ localFs' = r.fs
                     /\ s3Objects' = r.s3
                     /\ fileTable' = r.table
                     /\ clock' = r.clock
                     /\ last' = r.out
    /\ UNCHANGED <<config, calls, userTable, storeLast>>

\* GET /files/:id
GetFileById ==
    /\ \E fileId \in NewFileIds, userId \in Users :
          last' = Outcome("getFileById", userId, fileId, NoFile,
                          getFileById(fileTable, fileId, userId, clock), "", <<>>, -1)
    /\ UNCHANGED <<config, calls, userTable, fileTable, localFs, s3Objects, seq, clock, storeLast>>

\* DELETE /files/:id
DeleteFile ==
    /\ \E fileId \in NewFileIds, userId \in Users,
          s3Fails \in Faults(storageType = "s3"), fsFails \in BOOLEAN :
          \E r \in {deleteFile(fileId, userId, s3Fails, fsFails)} :
              /\ localFs' = r.fs
              /\ s3Objects' = r.s3
              /\ fileTable' = r.table
              /\ last' = r.out
    /\ UNCHANGED <<config, calls, userTable, seq, clock, storeLast>>

\* ?type= of GET /files: not given, or one of the categories
FileTypes == {Undef, "video", "image", "document", "archive"}

\* GET /files
GetUserFiles ==
    /\ \E userId \in Users, fileType \in FileTypes :
          last' = [Outcome("getUserFiles", userId, "", NoFile, NoError, "", <<>>, -1)
                     EXCEPT !.fileType = fileType,
                            !.files = getUserFiles(fileTable, userId, fileType, clock)]
    /\ UNCHANGED <<config, calls, userTable, fileTable, localFs, s3Objects, seq, clock, storeLast>>

\* the ids a bulk request may name: ids the service gave out and one it never did
RequestIds == NewFileIds \cup {"missing"}
FileIdLists == {<<a>> : a \in RequestIds} \cup {<<a, b>> : a, b \in RequestIds}

\* POST /files/delete-multiple with a non-empty array, storage answering
\* (storage that fails is met by the single delete)
DeleteMultipleFiles ==
    /\ \E fileIds \in FileIdLists, userId \in Users, s3Fails, fsFails \in {FALSE} :
          \E r \in {deleteMultipleFiles(fileIds, userId, s3Fails, fsFails)} :
              /\ localFs' = r.fs
              /\ s3Objects' = r.s3
              /\ fileTable' = r.table
              /\ last' = [Outcome("deleteMultipleFiles", userId, "", NoFile, NoError, "", <<>>, -1)
                            EXCEPT !.fileIds = fileIds,
                                   !.deletedCount = r.deletedCount,
                                   !.failedFiles = r.failedFiles]
    /\ UNCHANGED <<config, calls, userTable, seq, clock, storeLast>>

Next == Upload \/ GetFileById \/ GetUserFiles \/ DeleteFile \/ DeleteMultipleFiles

Spec == Init /\ [][Next]_vars

----------------------------------------------------------------------------
(* Properties of the FilesService requests *)

\* the object a row's locator refers to is in the storage it names: a bucket or
\* CDN URL names the object of that key, anything else a file on the local disk
ObjectAt(fs, s3, locator) ==
    IF locator # <<>> /\ locator[1] \in {BUCKET_ORIGIN, CLOUDFRONT_ORIGIN}
    THEN Tail(locator) \in s3
    ELSE Normalize(locator) \in fs

ActiveRow(table, id) == table[id] # NoRow /\ table[id].deletedAt = NullDate

\* C1: a delete of an active file by a caller who is not its owner is refused
\* with FILE_NOT_OWNER (403 Forbidden), removes nothing from storage or from
\* the File table, and the owner can still get the file by id afterwards.
C1_NonOwnerDeleteForbidden ==
    [][\A fileId \in NewFileIds, caller \in Users :
          (/\ last'.op = "deleteFile" /\ last'.fileId = fileId /\ last'.userId = caller
           /\ ActiveRow(fileTable, fileId)
           /\ fileTable[fileId].userId # caller)
          => /\ last'.result = "FILE_NOT_OWNER"
             /\ localFs' = localFs /\ s3Objects' = s3Objects /\ fileTable' = fileTable
             /\ getFileById(fileTable', fileId, fileTable[fileId].userId, clock') = NoError]_vars

\* a non-owner's delete of an existing active file has been refused
C1_Witness ==
    /\ last.op = "deleteFile" /\ last.result = "FILE_NOT_OWNER"
    /\ ActiveRow(fileTable, last.fileId)
    /\ fileTable[last.fileId].userId # last.userId

C3_UploadRollback ==
    [][(seq' = seq + 1 /\ last'.cause = "DB")
          => ~ObjectAt(localFs', s3Objects', last'.path)]_vars

\* the file is of a type that is not allowed, over the cap of its category, or
\* its name is too long
C4_Invalid(file) ==
    \/ file.mimetype \notin ALLOWED_MIME_TYPES
    \/ file.size > (IF file.mimetype \in VIDEO_MIME_TYPES THEN MAX_VIDEO_SIZE ELSE MAX_FILE_SIZE)
    \/ file.nameLength > MAX_FILENAME_LENGTH

C5_QuotaExceededRejected ==
    [][(/\ seq' = seq + 1
        /\ validateFile(last'.file) = NoError
        /\ last'.total >= 0
        /\ last'.total + last'.file.size > MAX_STORAGE_QUOTA)
          => /\ last'.result \notin {"", "FILE_UPLOAD_FAILED"}
             /\ s3Objects' = s3Objects /\ fileTable' = fileTable
             /\ ~StorageFileExists(localFs', s3Objects',
                                   generateStorageKey(last'.userId, seq'))]_vars

----------------------------------------------------------------------------
(* Calls made directly on the extended Prisma client (prisma.user, prisma.file),
   from a state in which every user has registered and uploaded one file. *)

Owner(n) == IF n % 2 = 1 THEN "u1" ELSE "u2"
StoredFile(n) ==
    FileRow(FileId(n),
            [mimetype |-> "image/png", size |-> MAX_FILE_SIZE],
            PathJoin(<<"/", "srv", "uploads">>, generateStorageKey(Owner(n), n)),
            Owner(n), 0)

InitStore ==
    /\ env = Environment(Undef, [name \in S3_CONFIGURATION |-> Undef])
    /\ storageType = determineStorageType(env)
    /\ uploadDirectory = <<"/", "srv", "uploads">>
    /\ cloudfrontUrl = Undef
    /\ unknownArgs \in UnknownArgs
    /\ userTable = [u \in Users |-> UserRow(u)]
    /\ fileTable = [id \in FileIds |->
                       IF \E n \in 1..MaxUploads : id = FileId(n)
                       THEN StoredFile(CHOOSE n \in 1..MaxUploads : id = FileId(n))
                       ELSE NoRow]
    /\ localFs = {fileTable[id].path : id \in NewFileIds}
    /\ s3Objects = {}
    /\ seq = MaxUploads
    /\ clock = 0
    /\ last = NoOutcome
    /\ storeLast = NoStoreOutcome
    /\ calls = NoCalls

Models == SOFT_DELETE_MODELS
Ids(model) == IF model = "User" THEN Users ELSE NewFileIds
TableOf(model) == IF model = "User" THEN userTable ELSE fileTable

\* the tables after a call on `model` left its table as `table`
SetTable(model, table) ==
    IF model = "User"
    THEN userTable' = table /\ fileTable' = Cascade(table, fileTable)
    ELSE fileTable' = table /\ UNCHANGED userTable

MarkerFilters == {Undef, Null, "notNull", "any"}
Wheres(model) == {Where(id, Undef, d) : id \in Ids(model) \cup {Undef}, d \in MarkerFilters}

service == <<localFs, s3Objects, seq, last>>

\* prisma.<model>.findUnique / findFirst / findMany / count / aggregate({ where })
StoreRead ==
    /\ \E model \in Models, operation \in READ_OPERATIONS : \E where \in Wheres(model) :
          /\ operation = "findUnique" => where.id # Undef
          /\ storeLast' = StoreOutcome(operation, model, where.id, where,
                              PrismaCall(TableOf(model), model, operation, Args(where, <<>>), clock),
                              NoRow, clock)
    /\ UNCHANGED <<config, calls, service, userTable, fileTable, clock>>

\* prisma.<model>.update({ where: { id }, data: { deletedAt } }): an ordinary update
StoreUpdate ==
    /\ clock < MaxClock
    /\ \E model \in Models, d \in {NullDate, Date(clock + 1)} : \E id \in Ids(model) :
          LET r == PrismaCall(TableOf(model), model, "update",
                              Args(Where(id, Undef, Undef), <<d>>), clock + 1)
          IN  /\ SetTable(model, r.table)
              /\ storeLast' = StoreOutcome("update", model, id, Where(id, Undef, Undef), r,
                                           TableOf(model)[id], clock + 1)
    /\ clock' = clock + 1
    /\ UNCHANGED <<config, calls, service>>

\* prisma.<model>.delete({ where: { id } })
StoreDelete ==
    /\ \E model \in Models : \E id \in Ids(model) :
          LET r == PrismaCall(TableOf(model), model, "delete",
                              Args(Where(id, Undef, Undef), <<>>), clock + 1)
          IN  /\ SetTable(model, r.table)
              /\ storeLast' = StoreOutcome("delete", model, id, Where(id, Undef, Undef), r,
                                           TableOf(model)[id], clock + 1)
    /\ UNCHANGED <<config, calls, service, clock>>

\* prisma.<model>.deleteMany({ where })
StoreDeleteMany ==
    /\ \E model \in Models : \E where \in Wheres(model) :
          LET r == PrismaCall(TableOf(model), model, "deleteMany", Args(where, <<>>), clock + 1)
          IN  /\ SetTable(model, r.table)
              /\ storeLast' = StoreOutcome("deleteMany", model, where.id, where, r,
                                           NoRow, clock + 1)
    /\ UNCHANGED <<config, calls, service, clock>>

\* prisma.<model>.forceDelete({ id })
StoreForceDelete ==
    /\ \E model \in Models : \E id \in Ids(model) :
          LET r == forceDelete(TableOf(model), model, Where(id, Undef, Undef), clock + 1)
          IN  /\ SetTable(model, r.table)
              /\ storeLast' = StoreOutcome("forceDelete", model, id, Where(id, Undef, Undef), r,
                                           TableOf(model)[id], clock + 1)
    /\ UNCHANGED <<config, calls, service, clock>>

\* prisma.<model>.restore({ id })
StoreRestore ==
    /\ \E model \in Models : \E id \in Ids(model) :
          LET r == restore(TableOf(model), model, Where(id, Undef, Undef), clock)
          IN  /\ SetTable(model, r.table)
              /\ storeLast' = StoreOutcome("restore", model, id, Where(id, Undef, Undef), r,
                                           TableOf(model)[id], clock)
    /\ UNCHANGED <<config, calls, service, clock>>

\* prisma.<model>.findManyWithDeleted({ where })
StoreFindManyWithDeleted ==
    /\ \E model \in Models : \E where \in Wheres(model) :
          storeLast' = StoreOutcome("findManyWithDeleted", model, where.id, where,
                           findManyWithDeleted(TableOf(model), model, Args(where, <<>>), clock),
                           NoRow, clock)
    /\ UNCHANGED <<config, calls, service, userTable, fileTable, clock>>

NextStore ==
    \/ StoreRead
    \/ StoreUpdate
    \/ StoreDelete
    \/ StoreDeleteMany
    \/ StoreForceDelete
    \/ StoreRestore
    \/ StoreFindManyWithDeleted

SpecStore == InitStore /\ [][NextStore]_vars

----------------------------------------------------------------------------
(* Properties of the soft-delete extension *)

After(model) == IF model = "User" THEN userTable' ELSE fileTable'

\* the rows a filter asks for, the marker aside
OtherConditions(model, where) ==
    {id \in Rows(TableOf(model)) : where.id = Undef \/ id = where.id}
Tombstoned(model) == {id \in Rows(TableOf(model)) : TableOf(model)[id].deletedAt # NullDate}

\* C6: a delete of an existing User or File row, and a bulk delete, removes no
\* row: it succeeds, and afterwards each row it addressed is still in the table,
\* unchanged but for its marker, which holds the time of the call.
C6_DeleteIsSoft ==
    [][\A model \in Models :
          storeLast'.model = model =>
             /\ \A id \in Ids(model) :
                   (/\ storeLast'.op = "delete" /\ storeLast'.id = id
                    /\ TableOf(model)[id] # NoRow)
                   => /\ ~storeLast'.threw
                      /\ After(model)[id]
                           = [TableOf(model)[id] EXCEPT !.deletedAt = Date(storeLast'.now)]
             /\ storeLast'.op = "deleteMany"
                   => /\ ~storeLast'.threw
                      /\ \A id \in Select(TableOf(model), storeLast'.where) :
                            After(model)[id]
                              = [TableOf(model)[id] EXCEPT !.deletedAt = Date(storeLast'.now)]]_vars

\* the rows a read is to return for the marker part of its filter
C7_Expected(model, where) ==
    {id \in OtherConditions(model, where) :
        CASE where.deletedAt \in {Undef, Null} -> TableOf(model)[id].deletedAt = NullDate
          [] where.deletedAt = "notNull" -> TableOf(model)[id].deletedAt # NullDate
          [] OTHER -> TRUE}

\* C7: a findMany, count or aggregate on User or File covers exactly the rows
\* that match the caller's filter and, when the filter does not mention the
\* marker, have a null marker; findUnique and findFirst return one of those rows
\* when there is one, and nothing otherwise.  A filter that mentions the marker
\* is applied as given.
C7_ReadsSeeActiveOnly ==
    storeLast.op \in READ_OPERATIONS
       => /\ ~storeLast.threw
          /\ IF storeLast.op \in {"findUnique", "findFirst"}
             THEN /\ storeLast.rows \subseteq C7_Expected(storeLast.model, storeLast.where)
                  /\ Cardinality(storeLast.rows) =
                        (IF C7_Expected(storeLast.model, storeLast.where) = {} THEN 0 ELSE 1)
             ELSE storeLast.rows = C7_Expected(storeLast.model, storeLast.where)

\* a read whose filter does not mention the marker ran while a row it would
\* otherwise match was tombstoned
C7_Witness ==
    /\ storeLast.op \in READ_OPERATIONS
    /\ storeLast.where.deletedAt = Undef
    /\ OtherConditions(storeLast.model, storeLast.where) \cap Tombstoned(storeLast.model) # {}

\* C8: forceDelete of an existing User or File row removes the row from its table.
C8_ForceDeleteRemoves ==
    [][\A model \in Models : \A id \in Ids(model) :
          (/\ storeLast'.op = "forceDelete" /\ storeLast'.model = model /\ storeLast'.id = id
           /\ TableOf(model)[id] # NoRow)
          => After(model)[id] = NoRow]_vars

\* C9: findManyWithDeleted returns every row that matches the other conditions
\* of the caller's filter, tombstoned or not.
C9_FindManyWithDeletedSeesAll ==
    storeLast.op = "findManyWithDeleted"
       => storeLast.rows = OtherConditions(storeLast.model, storeLast.where)

----------------------------------------------------------------------------
(* The marker state of a File row *)

MarkerState(table, id) ==
    IF table[id] = NoRow THEN "gone"
    ELSE IF table[id].deletedAt = NullDate THEN "Active" ELSE "Tombstoned"

----------------------------------------------------------------------------
(* Properties of the storage router *)

\* a locator that names an object of the bucket (bucket or CDN URL)
RemoteLocator(locator) ==
    locator # <<>> /\ locator[1] \in {BUCKET_ORIGIN, CLOUDFRONT_ORIGIN}

\* the file of the next upload request: a valid image
NextFile == [mimetype |-> "image/png", size |-> MAX_FILE_SIZE, nameLength |-> 8,
             path |-> TempPath(seq + 1)]

\* C12: for the next upload, whatever fails: with S3 active and the S3 upload
\* throwing, the router returns what the local provider returns, as storage type
\* local, and the service stores that locator in the row; when the local upload
\* throws as well, the router throws and the upload fails.  With S3 active and
\* its upload succeeding the result is the S3 one.  With local storage active a
\* throwing upload makes the router throw, with nothing written.
C12_RouterUploadFallback ==
    seq < MaxUploads =>
       \A userId \in Users, s3Fails, fsFails \in BOOLEAN :
          LET n == seq + 1
              fs0 == Received(localFs, NextFile)
              key == generateStorageKey(userId, n)
              remote == S3UploadFile(fs0, s3Objects, NextFile, key, s3Fails)
              local == LocalUploadFile(fs0, s3Objects, NextFile, key, fsFails)
              r == StorageUploadFile(fs0, s3Objects, NextFile, key, s3Fails, fsFails)
              svc == uploadFile(n, NextFile, userId, s3Fails, fsFails, FALSE, FALSE)
          IN  /\ (storageType = "s3" /\ remote.threw /\ ~local.threw)
                    => /\ ~r.threw
                       /\ r.value.storageType = "local"
                       /\ r.value.url = local.value
                       /\ r.fs = local.fs /\ r.s3 = s3Objects
                       /\ svc.out.result = ""
                       /\ svc.table[FileId(n)].path = local.value
              /\ (storageType = "s3" /\ remote.threw /\ local.threw)
                    => /\ r.threw
                       /\ svc.out.result = "FILE_UPLOAD_FAILED"
                       /\ svc.table = fileTable
              /\ (storageType = "s3" /\ ~remote.threw)
                    => /\ ~r.threw
                       /\ r.value.storageType = "s3"
                       /\ r.value.url = remote.value
                       /\ r.fs = remote.fs /\ r.s3 = remote.s3
              /\ (storageType = "local" /\ local.threw)
                    => /\ r.threw
                       /\ r.fs = fs0 /\ r.s3 = s3Objects
                       /\ svc.out.result = "FILE_UPLOAD_FAILED"

\* with S3 active an upload has succeeded through the local fallback and the
\* row holds the local locator
C12_Witness ==
    /\ storageType = "s3"
    /\ last.op = "uploadFile" /\ last.result = ""
    /\ ~RemoteLocator(last.path)
    /\ fileTable[last.fileId] # NoRow
    /\ fileTable[last.fileId].path = last.path

\* the new File rows stored on the local disk although S3 is the active provider
FallbackFiles ==
    {n \in 1..MaxUploads :
        /\ storageType = "s3"
        /\ fileTable[FileId(n)] # NoRow
        /\ ~RemoteLocator(fileTable[FileId(n)].path)
        /\ ObjectAt(localFs, s3Objects, fileTable[FileId(n)].path)}

\* C13: with S3 active, for a file that the upload fallback stored on the local
\* disk, the router's fileExists of its key is true and the router's deleteFile
\* of its key (no request failing) removes the local object.
C13_FallbackFileFoundAndDeleted ==
    \A n \in FallbackFiles :
       LET row == fileTable[FileId(n)]
           key == generateStorageKey(row.userId, n)
           gone == StorageDeleteFile(localFs, s3Objects, key, FALSE, FALSE)
       IN  /\ StorageFileExists(localFs, s3Objects, key)
           /\ gone.value
           /\ ~ObjectAt(gone.fs, gone.s3, row.path)

----------------------------------------------------------------------------
(* FilesService reads over rows whose marker changes: the requests of the
   service next to direct marker updates, restores and force deletes. *)

NextMarked ==
    \/ StoreUpdate
    \/ StoreRestore
    \/ StoreForceDelete
    \/ GetFileById

SpecMarked == InitStore /\ [][NextMarked]_vars

\* what GetById is to answer for the state of the row and its owner
C14_Expected(fileId, caller) ==
    IF MarkerState(fileTable, fileId) # "Active" THEN "FILE_NOT_FOUND"
    ELSE IF fileTable[fileId].userId # caller THEN "FILE_NOT_OWNER"
    ELSE ""

\* C14: getFileById fails with FILE_NOT_FOUND when the id has no active row
\* (absent or tombstoned, whoever asks), with FILE_NOT_OWNER when an active row
\* is owned by someone else, and returns the row to its owner.
C14_GetByIdOutcome ==
    [][(last'.op = "getFileById" /\ UNCHANGED storeLast)
          => last'.result = C14_Expected(last'.fileId, last'.userId)]_vars

\* a get by id of a tombstoned row, by its owner, has failed with FILE_NOT_FOUND
C14_Witness ==
    /\ last.op = "getFileById" /\ last.result = "FILE_NOT_FOUND"
    /\ MarkerState(fileTable, last.fileId) = "Tombstoned"
    /\ fileTable[last.fileId].userId = last.userId

----------------------------------------------------------------------------
(* Properties of the bulk delete *)

\* C15: deleteMultipleFiles returns a summary whatever happens to the single
\* deletes: every id is either counted as deleted or listed in failedFiles, in
\* the order given.  For [validId, missingId], validId an active file of the
\* caller, the summary is deletedCount 1 and the one failure of missingId with
\* the reason of a file that was not found.
C15_DeleteManySummary ==
    [][last'.op = "deleteMultipleFiles" =>
          /\ last'.result = ""
          /\ last'.deletedCount + Len(last'.failedFiles) = Len(last'.fileIds)
          /\ \A valid \in NewFileIds :
                (/\ last'.fileIds = <<valid, "missing">>
                 /\ ActiveRow(fileTable, valid)
                 /\ fileTable[valid].userId = last'.userId)
                => /\ last'.deletedCount = 1
                   /\ last'.failedFiles =
                         <<[fileId |-> "missing", reason |-> "File not found"]>>]_vars

----------------------------------------------------------------------------
(* Listing over rows that are uploaded, tombstoned and restored *)

NextListing ==
    \/ Upload
    \/ GetUserFiles
    \/ StoreUpdate
    \/ StoreRestore

\* the listing does not depend on where the objects are stored: one configuration
InitListing ==
    /\ Init
    /\ storageType = "local"
    /\ uploadDirectory = <<"/", "srv", "uploads">>
    /\ unknownArgs = "reject"

SpecListing == InitListing /\ [][NextListing]_vars

\* the rows List is to return: the caller's active rows, of the category if given
C16_Expected(userId, fileType) ==
    {id \in FileIds :
        /\ ActiveRow(fileTable, id)
        /\ fileTable[id].userId = userId
        /\ fileType # Undef => getFileTypeCategory(fileTable[id].mimeType) = fileType}

\* C16: getUserFiles returns each of the caller's active File rows of the
\* category asked for (all categories when none is given) exactly once and no
\* other row, newest first; a file the caller has just uploaded and that is
\* still active is the first element of the caller's unfiltered list.
C16_ListIsOwnActiveNewestFirst ==
    [][(last'.op = "getUserFiles" /\ UNCHANGED storeLast)
          => LET files == last'.files
             IN  /\ {files[i] : i \in DOMAIN files} = C16_Expected(last'.userId, last'.fileType)
                 /\ Len(files) = Cardinality(C16_Expected(last'.userId, last'.fileType))
                 /\ \A i, j \in DOMAIN files :
                       i < j => fileTable[files[i]].createdAt >= fileTable[files[j]].createdAt
                 /\ (/\ last.op = "uploadFile" /\ last.result = ""
                     /\ last.userId = last'.userId /\ last'.fileType = Undef
                     /\ ActiveRow(fileTable, last.fileId))
                       => files # <<>> /\ files[1] = last.fileId]_vars

\* a list has the caller's new upload first, ahead of the caller's older files
C16_Witness ==
    /\ last.op = "getUserFiles"
    /\ Len(last.files) >= 2
    /\ last.files[1] \in NewFileIds
    /\ ActiveRow(fileTable, last.files[1])

----------------------------------------------------------------------------
(* C17 *)

\* C17: after an Upload that returned a record, the record's size is the
\* input's size, the record's locator is the locator the storage router
\* returned, and the router's fileExists on that locator is true, whichever
\* provider is active and wherever the temp file lay.
C17_UploadedFileExists ==
    (last.op = "uploadFile" /\ last.result = "") =>
        /\ fileTable[last.fileId] # NoRow
        /\ fileTable[last.fileId].size = last.file.size
        /\ fileTable[last.fileId].path = last.path
        /\ StorageFileExists(localFs, s3Objects, last.path)

----------------------------------------------------------------------------
(* C18 *)

\* the storage deletion of the object under `key` fails with a genuine error:
\* the DeleteObject request throws, or unlink throws on a file that is there
StorageDeletionFails(key, s3Fails, fsFails) ==
    IF storageType = "s3"
    THEN s3Fails
    ELSE fsFails /\ LocalFileExists(localFs, key)

----------------------------------------------------------------------------
(* C19 *)

\* the File rows of a user that a normal read returns / that are in the table
VisibleFilesOf(table, userId, now) ==
    PrismaCall(table, "File", "findMany", Args(Where(Undef, userId, Undef), <<>>), now).rows
FilesOf(table, userId) == {id \in Rows(table) : table[id].userId = userId}

\* C19: deleting a User cascades to the files the user owns: after a delete of
\* an existing User row no File row of that user is visible through normal
\* reads, and after a forceDelete of it no File row of that user exists.
C19_UserDeleteCascades ==
    [][\A id \in Users :
          (/\ storeLast'.model = "User" /\ storeLast'.id = id
           /\ userTable[id] # NoRow)
          => /\ storeLast'.op = "delete" => VisibleFilesOf(fileTable', id, clock') = {}
             /\ storeLast'.op = "forceDelete" => FilesOf(fileTable', id) = {}]_vars

\* a User row carries the marker while a normal read still returns its files
C19_TombstonedUserWithVisibleFiles ==
    \E id \in Users :
        /\ userTable[id] # NoRow
        /\ userTable[id].deletedAt # NullDate
        /\ VisibleFilesOf(fileTable, id, clock) # {}

----------------------------------------------------------------------------
(* C20: the service with a database whose reads can fail *)

\* what a Prisma read rejects with when the database cannot be reached
DatabaseError == Thrown("PrismaClientInitializationError", "P1001")

\* GET /files/:id; readFails: prisma.file.findUnique rejects.  The await stands
\* outside any try, so the rejection leaves getFileById as it is.
GetFileByIdFaulty ==
    /\ \E fileId \in NewFileIds, userId \in Users, readFails \in BOOLEAN :
          last' = Outcome("getFileById", userId, fileId, NoFile,
                          IF readFails THEN DatabaseError
                          ELSE getFileById(fileTable, fileId, userId, clock),
                          "", <<>>, -1)
    /\ UNCHANGED <<config, calls, userTable, fileTable, localFs, s3Objects, seq, clock, storeLast>>

\* GET /files; readFails: prisma.file.findMany rejects, outside any try
GetUserFilesFaulty ==
    /\ \E userId \in Users, fileType \in FileTypes, readFails \in BOOLEAN :
          last' = IF readFails
                  THEN [Outcome("getUserFiles", userId, "", NoFile, DatabaseError, "", <<>>, -1)
                          EXCEPT !.fileType = fileType]
                  ELSE [Outcome("getUserFiles", userId, "", NoFile, NoError, "", <<>>, -1)
                          EXCEPT !.fileType = fileType,
                                 !.files = getUserFiles(fileTable, userId, fileType, clock)]
    /\ UNCHANGED <<config, calls, userTable, fileTable, localFs, s3Objects, seq, clock, storeLast>>

\* DELETE /files/:id; readFails: the prisma.file.findUnique of the existence
\* check rejects, before the try that wraps the deletion
DeleteFileFaulty ==
    /\ \E fileId \in NewFileIds, userId \in Users, readFails \in BOOLEAN,
          s3Fails \in Faults(storageType = "s3"), fsFails \in BOOLEAN :
          \E r \in {IF readFails
                    THEN [fs |-> localFs, s3 |-> s3Objects, table |-> fileTable,
                          out |-> Outcome("deleteFile", userId, fileId, NoFile,
                                          DatabaseError, DatabaseError.code, <<>>, -1)]
                    ELSE deleteFile(fileId, userId, s3Fails, fsFails)} :
              /\ localFs' = r.fs
              /\ s3Objects' = r.s3
              /\ fileTable' = r.table
              /\ last' = r.out
    /\ UNCHANGED <<config, calls, userTable, seq, clock, storeLast>>

NextFaulty ==
    \/ Upload
    \/ GetFileByIdFaulty
    \/ GetUserFilesFaulty
    \/ DeleteFileFaulty
    \/ DeleteMultipleFiles

SpecFaulty == Init /\ [][NextFaulty]_vars

\* the typed errors of the service
TypedErrors ==
    {AppException(code) : code \in {"FILE_TYPE_NOT_ALLOWED", "FILE_TOO_LARGE",
                                    "STORAGE_QUOTA_EXCEEDED", "FILE_NOT_FOUND",
                                    "FILE_NOT_OWNER", "FILE_UPLOAD_FAILED",
                                    "FILE_DELETE_FAILED"}}

\* C20: an error that leaves the service, from Upload, List, GetById, Delete or
\* DeleteMany, is one of its typed errors; no raw storage or database exception
\* reaches the caller.
C20_ErrorsAreTyped ==
    (last.result # "" /\ last.cause # "LIMIT_FILE_SIZE") =>
        Thrown(last.class, last.result) \in TypedErrors

----------------------------------------------------------------------------
(* C21: the selection of the provider at startup *)

StorageTypeSettings == {Undef, "local", "s3"}
CredentialSettings == {Undef, "", "set"}
Environments ==
    {Environment(type, credentials) :
        type \in StorageTypeSettings,
        credentials \in [S3_CONFIGURATION -> CredentialSettings]}

\* the StorageService constructed in any environment
InitStartup ==
    /\ env \in Environments
    /\ storageType = determineStorageType(env)
    /\ uploadDirectory = <<"/", "srv", "uploads">>
    /\ cloudfrontUrl = Undef
    /\ unknownArgs \in UnknownArgs
    /\ InitData

NextStartup == Upload \/ DeleteFile

SpecStartup == InitStartup /\ [][NextStartup]_vars

\* C21: the active provider is the remote one exactly when the configured type
\* is s3 and bucket, region, access key and secret are all present, and the
\* local one in every other case; it is selected once and stays as selected,
\* also after an upload has fallen back to the local provider.
C21_ProviderSelectedOnce ==
    /\ storageType \in StorageTypes
    /\ storageType = "s3" <=>
          /\ env.STORAGE_TYPE = "s3"
          /\ \A name \in S3_CONFIGURATION : env[name] # Undef /\ env[name] # ""

\* an upload has fallen back to the local provider while the remote one is active
C21_Witness ==
    /\ storageType = "s3"
    /\ last.op = "uploadFile" /\ last.result = ""
    /\ ~RemoteLocator(last.path)
    /\ \E name \in S3_CONFIGURATION : env[name] = "set"

----------------------------------------------------------------------------
(* C22 *)

\* keys a caller may hand to the local provider: the paths on the disk, the
\* keys of the rows' locators, and a key that names nothing
DeleteKeys ==
    localFs \cup {extractStorageKey(fileTable[id].path) : id \in Rows(fileTable)}
            \cup {<<"users", "u1", "nothing">>}

\* C22: the local provider's deleteFile is idempotent: with a disk that lets a
\* present file be unlinked, the first call returns true if the file was there
\* and false if it was not, without throwing, and a second call straight after
\* it returns false and does not throw, whatever the disk does.
C22_LocalDeleteIdempotent ==
    \A key \in DeleteKeys, fsFails \in BOOLEAN :
        LET first == LocalDeleteFile(localFs, s3Objects, key, FALSE)
            second == LocalDeleteFile(first.fs, first.s3, key, fsFails)
        IN  /\ ~first.threw
            /\ first.value = LocalFileExists(localFs, key)
            /\ ~LocalFileExists(first.fs, key)
            /\ ~second.threw
            /\ second.value = FALSE
            /\ second.fs = first.fs

\* the local provider has removed the object of a Delete, other files are on
\* the disk, and the key of the removed object now names nothing
C22_Witness ==
    /\ storageType = "local"
    /\ last.op = "deleteFile" /\ last.path # <<>>
    /\ IsAbsolute(last.path) /\ Normalize(last.path) \notin localFs
    /\ ~LocalFileExists(localFs, extractStorageKey(last.path))
    /\ \E key \in DeleteKeys : LocalFileExists(localFs, key)

----------------------------------------------------------------------------
(* C23 *)

\* C23: a Delete of an owned active file, with storage and database answering,
\* removes the object and then soft-deletes the row; when the object is
\* already absent (the storage delete returns false) it does not fail either:
\* it returns success and the row is in the table with its marker set.
C23_DeleteSoftDeletesRow ==
    \A fileId \in NewFileIds :
        ActiveRow(fileTable, fileId) =>
            LET file == fileTable[fileId]
                r == deleteFile(fileId, file.userId, FALSE, FALSE)
            IN  /\ r.out.result = ""
                /\ r.table = [fileTable EXCEPT ![fileId].deletedAt = Date(clock + 1)]
                /\ ~ObjectAt(r.fs, r.s3, file.path)

----------------------------------------------------------------------------
(* C24 *)

\* the last call was an Upload of a valid file whose quota aggregation failed
QuotaCheckFailed ==
    /\ last.op = "uploadFile"
    /\ validateFile(last.file) = NoError
    /\ last.file.size <= MAX_VIDEO_SIZE
    /\ last.total = -1

\* C24: when the aggregation query of the quota check fails, the Upload goes on
\* to storage and to the creation of the row as if the check had passed: it
\* ends as storage and database make it end, and when they answer the row and
\* its object are there.  The quota check stops an Upload only with a sum it
\* has read and found over the quota.
C24_QuotaCheckFailureSwallowed ==
    /\ QuotaCheckFailed =>
          /\ last.cause \in {"", "STORAGE", "DB"}
          /\ last.cause = "" =>
                /\ last.result = ""
                /\ ActiveRow(fileTable, last.fileId)
                /\ fileTable[last.fileId].path = last.path
                /\ ObjectAt(localFs, s3Objects, last.path)
    /\ (last.op = "uploadFile" /\ last.cause = "QUOTA") =>
          /\ last.total >= 0
          /\ last.total + last.file.size > MAX_STORAGE_QUOTA

\* an Upload whose quota aggregation failed has stored its file
C24_Witness ==
    /\ QuotaCheckFailed
    /\ last.result = ""
    /\ ActiveRow(fileTable, last.fileId)

----------------------------------------------------------------------------
(* C25: uploads in flight at the same time.  FilesService.uploadFile is taken
   apart at its awaits: the quota aggregation, the storage upload and the
   creation of the row; between them another request may run. *)

\* one deployment: local storage under an absolute directory, u1 close to the quota
InitRace ==
    /\ env = Environment(Undef, [name \in S3_CONFIGURATION |-> Undef])
    /\ storageType = determineStorageType(env)
    /\ uploadDirectory = <<"/", "srv", "uploads">>
    /\ cloudfrontUrl = Undef
    /\ unknownArgs = "reject"
    /\ InitData

\* the files of the racing requests: images that u1 can still store, one at a time
RaceFiles == {[mimetype |-> "image/png", size |-> s, nameLength |-> MAX_FILENAME_LENGTH] :
                 s \in {MAX_FILE_SIZE \div 2, MAX_FILE_SIZE}}

UploadCall(pc, userId, file, n, total, url, error) ==
    [pc |-> pc, op |-> "uploadFile", userId |-> userId, file |-> file, n |-> n,
     total |-> total, url |-> url, result |-> error.code]

\* the call of process p ends: with the row (NoError), or with what the catch
\* block makes of the error thrown in the try block
UploadEnds(p, c, error, cause, url) ==
    LET thrown == IF error = NoError THEN NoError ELSE uploadFileCatch(error)
    IN  /\ calls' = [calls EXCEPT ![p] = UploadCall("done", c.userId, c.file, c.n, c.total,
                                                     url, thrown)]
        /\ last' = Outcome("uploadFile", c.userId, FileId(c.n), c.file,
                           thrown, cause, url, c.total)

\* POST /files/upload reaches the service: multer has written the temp file;
\* validateFile runs before the first await
UploadBegins(p) ==
    /\ calls[p] = Idle
    /\ seq < MaxCalls
    /\ \E userId \in Users, f \in RaceFiles :
          LET n == seq + 1
              file == [mimetype |-> f.mimetype, size |-> f.size,
                       nameLength |-> f.nameLength, path |-> TempPath(n)]
              c == UploadCall("quota", userId, file, n, -1, <<>>, NoError)
          IN  /\ seq' = n
              /\ localFs' = Received(localFs, file)
              /\ IF validateFile(file) # NoError
                 THEN UploadEnds(p, c, validateFile(file), validateFile(file).code, <<>>)
                 ELSE calls' = [calls EXCEPT ![p] = c] /\ UNCHANGED last
    /\ UNCHANGED <<config, userTable, fileTable, s3Objects, clock, storeLast>>

\* await this.checkUserStorageQuota(userId, file.size)
UploadChecksQuota(p) ==
    /\ calls[p].pc = "quota"
    /\ LET c == calls[p]
           total == currentTotalSize(fileTable, c.userId, clock)
           quota == checkUserStorageQuota(fileTable, c.userId, c.file.size, FALSE, clock)
           read == [c EXCEPT !.total = total]
       IN  IF quota # NoError
           THEN UploadEnds(p, read, quota, "QUOTA", <<>>)
           ELSE calls' = [calls EXCEPT ![p] = [read EXCEPT !.pc = "store"]] /\ UNCHANGED last
    /\ UNCHANGED <<config, userTable, fileTable, localFs, s3Objects, seq, clock, storeLast>>

\* await this.storageService.uploadFile(file, storageKey)
UploadStores(p) ==
    /\ calls[p].pc = "store"
    /\ LET c == calls[p]
           up == StorageUploadFile(localFs, s3Objects, c.file,
                                   generateStorageKey(c.userId, c.n), FALSE, FALSE)
       IN  /\ localFs' = up.fs
           /\ s3Objects' = up.s3
           /\ IF up.threw
              THEN UploadEnds(p, c, Thrown("Error", "STORAGE"), "STORAGE", <<>>)
              ELSE /\ calls' = [calls EXCEPT ![p] = [c EXCEPT !.pc = "create",
                                                              !.url = up.value.url]]
                   /\ UNCHANGED last
    /\ UNCHANGED <<config, userTable, fileTable, seq, clock, storeLast>>

\* await this.prisma.file.create(...)
UploadCreates(p) ==
    /\ calls[p].pc = "create"
    /\ LET c == calls[p]
           created == fileCreate(fileTable, userTable,
                                 FileRow(FileId(c.n), c.file, c.url, c.userId, clock + 1),
                                 FALSE)
       IN  /\ fileTable' = created.table
           /\ IF created.threw
              THEN UploadEnds(p, c, Thrown("Error", "DB"), "DB", c.url) /\ UNCHANGED clock
              ELSE UploadEnds(p, c, NoError, "", c.url) /\ clock' = clock + 1
    /\ UNCHANGED <<config, userTable, localFs, s3Objects, seq, storeLast>>

NextRace ==
    \E p \in Procs :
        \/ UploadBegins(p)
        \/ UploadChecksQuota(p)
        \/ UploadStores(p)
        \/ UploadCreates(p)

SpecRace == InitRace /\ [][NextRace]_vars

\* the sum of the sizes of a user's active rows
ActiveTotal(table, userId) ==
    SumSize(table, {id \in Rows(table) : table[id].userId = userId
                                          /\ table[id].deletedAt = NullDate})

\* C25: no lock or transaction spans the quota read and the metadata write of
\* an Upload: the quota check of a call reads the sum of the rows there are at
\* that moment, whatever other calls of the same user have in flight, and a
\* call that has passed the check and stored its file creates its row
\* whatever the sum has become since.
C25_QuotaReadAndWriteNotAtomic ==
    [][\A p \in Procs :
          /\ (calls[p].pc = "quota" /\ calls'[p].pc = "store")
                => calls'[p].total = ActiveTotal(fileTable, calls[p].userId)
          /\ calls[p].pc = "create"
                => \/ calls'[p] = calls[p]
                   \/ /\ calls'[p].pc = "done" /\ calls'[p].result = ""
                      /\ ActiveRow(fileTable', FileId(calls[p].n))]_vars

\* two Uploads of one user have both completed; each, by the sum it read,
\* fitted in the quota; the user's active files now exceed the quota
C25_Witness ==
    /\ \A p \in Procs : calls[p].pc = "done" /\ calls[p].result = ""
                        /\ calls[p].total + calls[p].file.size <= MAX_STORAGE_QUOTA
    /\ \E userId \in Users :
          /\ \A p \in Procs : calls[p].userId = userId
          /\ ActiveTotal(fileTable, userId) > MAX_STORAGE_QUOTA

----------------------------------------------------------------------------
(* C26 *)

\* C26: with one call at a time and a quota aggregation that answers, no call
\* takes a user's sum of active file sizes over the quota: an Upload whose
\* aggregation answered leaves every sum that was within the quota within it,
\* and a Delete or DeleteMany raises no sum.
C26_SumWithinQuota ==
    [][\A userId \in Users :
          ActiveTotal(fileTable, userId) <= MAX_STORAGE_QUOTA =>
             /\ (last'.op = "uploadFile" /\ last'.total >= 0)
                   => ActiveTotal(fileTable', userId) <= MAX_STORAGE_QUOTA
             /\ last'.op \in {"deleteFile", "deleteMultipleFiles"}
                   => ActiveTotal(fileTable', userId) <= ActiveTotal(fileTable, userId)]_vars

----------------------------------------------------------------------------
(* C27 *)

\* C27: through Upload, Delete and DeleteMany, also when a storage call or a
\* metadata call fails part-way, the locator of every active File row names an
\* object that is in storage.
C27_ActiveRowsHaveObjects ==
    \A id \in Rows(fileTable) :
        fileTable[id].deletedAt = NullDate =>
            ObjectAt(localFs, s3Objects, fileTable[id].path)

----------------------------------------------------------------------------
(* C28: deletes in flight at the same time.  FilesService.deleteFile is taken
   apart at its awaits: the read of the row, the storage delete and the
   delete of the row. *)

DeleteCall(pc, userId, fileId, path, error) ==
    [pc |-> pc, op |-> "deleteFile", userId |-> userId, fileId |-> fileId,
     path |-> path, result |-> error.code]

\* the call of process p ends: what deleteFile returns or throws
DeleteEnds(p, c, error, cause) ==
    /\ calls' = [calls EXCEPT ![p] = DeleteCall("done", c.userId, c.fileId, c.path, error)]
    /\ last' = Outcome("deleteFile", c.userId, c.fileId, NoFile, error, cause, c.path, -1)

\* DELETE /files/:id reaches the service: await this.prisma.file.findUnique,
\* then the check of the owner
DeleteFinds(p) ==
    /\ calls[p] = Idle
    /\ \E fileId \in RequestIds, userId \in Users :
          LET found == PrismaCall(fileTable, "File", "findUnique",
                                  Args(Where(fileId, Undef, Undef), <<>>), clock).rows
              file == fileTable[CHOOSE id \in found : TRUE]
              c == DeleteCall("storage", userId, fileId, <<>>, NoError)
          IN  IF found = {}
              THEN DeleteEnds(p, c, AppException("FILE_NOT_FOUND"), "FILE_NOT_FOUND")
              ELSE IF NotOwner(file, userId)
              THEN DeleteEnds(p, c, AppException("FILE_NOT_OWNER"), "FILE_NOT_OWNER")
              ELSE /\ calls' = [calls EXCEPT ![p] = [c EXCEPT !.path = file.path]]
                   /\ UNCHANGED last
    /\ UNCHANGED <<config, userTable, fileTable, localFs, s3Objects, seq, clock, storeLast>>

\* await this.storageService.deleteFile(storageKey); false is only logged
DeleteRemovesObject(p) ==
    /\ calls[p].pc = "storage"
    /\ LET c == calls[p]
           gone == StorageDeleteFile(localFs, s3Objects, extractStorageKey(c.path),
                                     FALSE, FALSE)
       IN  /\ localFs' = gone.fs
           /\ s3Objects' = gone.s3
           /\ calls' = [calls EXCEPT ![p] = [c EXCEPT !.pc = "row"]]
    /\ UNCHANGED <<config, userTable, fileTable, seq, clock, last, storeLast>>

\* await this.prisma.file.delete({ where: { id: fileId } }), and the catch block
DeleteRemovesRow(p) ==
    /\ calls[p].pc = "row"
    /\ LET c == calls[p]
           deleted == PrismaCall(fileTable, "File", "delete",
                                 Args(Where(c.fileId, Undef, Undef), <<>>), clock + 1)
       IN  /\ fileTable' = deleted.table
           /\ IF deleted.threw
              THEN DeleteEnds(p, c, AppException("FILE_DELETE_FAILED"), deleted.error)
              ELSE DeleteEnds(p, c, NoError, "")
    /\ UNCHANGED <<config, userTable, localFs, s3Objects, seq, clock, storeLast>>

NextDeleteRace ==
    \E p \in Procs :
        \/ DeleteFinds(p)
        \/ DeleteRemovesObject(p)
        \/ DeleteRemovesRow(p)

SpecDeleteRace == InitStore /\ [][NextDeleteRace]_vars

----------------------------------------------------------------------------
(* C29 *)

\* C29: after an Upload that was rejected or failed, the temp file the HTTP
\* layer wrote before calling the service is gone: the local disk holds no
\* file that no File row references.
C29_FailedUploadLeavesNoFile ==
    (last.op = "uploadFile" /\ last.result # "") =>
        /\ Normalize(last.file.path) \notin localFs
        /\ \A path \in localFs :
              \E id \in Rows(fileTable) : Normalize(fileTable[id].path) = path

----------------------------------------------------------------------------
(* C30: AuthService.register, taken apart at its awaits: the read that looks
   for the email and the creation of the row. *)

\* the id of the row a register call creates
UserId(p) == "n" \o ToString(p)
UserIds == Users \cup {UserId(p) : p \in Procs}

\* the emails a register call may carry: those of u1 and u2, and new ones
RegisterEmails == {"u1", "u2", "a@example.com", "b@example.com"}

\* u1 has registered, and may since have been soft-deleted; u2 has registered
InitRegister ==
    /\ env = Environment(Undef, [name \in S3_CONFIGURATION |-> Undef])
    /\ storageType = determineStorageType(env)
    /\ uploadDirectory = <<"/", "srv", "uploads">>
    /\ cloudfrontUrl = Undef
    /\ unknownArgs = "reject"
    /\ \E d \in {NullDate, Date(0)} :
          userTable = [id \in UserIds |->
                          IF id = "u1" THEN [UserRow(id) EXCEPT !.deletedAt = d]
                          ELSE IF id \in Users THEN UserRow(id)
                          ELSE NoRow]
    /\ fileTable = [id \in FileIds |-> NoRow]
    /\ localFs = {}
    /\ s3Objects = {}
    /\ seq = 0
    /\ clock = 0
    /\ last = NoOutcome
    /\ storeLast = NoStoreOutcome
    /\ calls = NoCalls

RegisterCall(pc, email, error) ==
    [pc |-> pc, op |-> "register", email |-> email,
     result |-> error.code, class |-> error.class]

\* prisma.user.findUnique({ where: { email } }) through the soft-delete hook
findUserByEmail(table, email, now) ==
    {id \in PrismaCall(table, "User", "findMany",
                       Args(Where(Undef, Undef, Undef), <<>>), now).rows :
        table[id].email = email}

\* prisma.user.create: the unique index on email covers every row of the table
userCreate(table, id, email, now) ==
    IF \E other \in Rows(table) : table[other].email = email
    THEN QueryResult(TRUE, "P2002", {}, table)
    ELSE QueryResult(FALSE, "", {id},
                     [table EXCEPT ![id] = [UserRow(id) EXCEPT !.email = email,
                                                               !.createdAt = now]])

\* the call of process p ends: what register returns or throws
RegisterEnds(p, email, error) ==
    /\ calls' = [calls EXCEPT ![p] = RegisterCall("done", email, error)]
    /\ last' = Outcome("register", "", "", NoFile, error, error.code, <<>>, -1)

\* POST /auth/register reaches the service: the check that the email is free
RegisterFinds(p) ==
    /\ calls[p] = Idle
    /\ \E email \in RegisterEmails :
          IF findUserByEmail(userTable, email, clock) # {}
          THEN RegisterEnds(p, email, AppException("AUTH_EMAIL_EXISTS"))
          ELSE /\ calls' = [calls EXCEPT ![p] = RegisterCall("create", email, NoError)]
               /\ UNCHANGED last
    /\ UNCHANGED <<config, userTable, fileTable, localFs, s3Objects, seq, clock, storeLast>>

\* await this.prisma.user.create(...), outside any try
RegisterCreates(p) ==
    /\ calls[p].pc = "create"
    /\ LET created == userCreate(userTable, UserId(p), calls[p].email, clock + 1)
       IN  /\ userTable' = created.table
           /\ IF created.threw
              THEN RegisterEnds(p, calls[p].email,
                                Thrown("PrismaClientKnownRequestError", created.error))
              ELSE RegisterEnds(p, calls[p].email, NoError)
    /\ UNCHANGED <<config, fileTable, localFs, s3Objects, seq, clock, storeLast>>

NextRegister ==
    \E p \in Procs :
        \/ RegisterFinds(p)
        \/ RegisterCreates(p)

SpecRegister == InitRegister /\ [][NextRegister]_vars

\* C30: emails stay unique however register calls interleave: no two User rows
\* hold the same email, and a register call that creates no row ends in the
\* email-already-exists conflict, never in a raw database error, also when the
\* email is that of a soft-deleted User.
C30_RegisterKeepsEmailsUnique ==
    /\ \A a, b \in Rows(userTable) : userTable[a].email = userTable[b].email => a = b
    /\ \A p \in Procs :
          calls[p].pc = "done" =>
             \/ calls[p].result = "" /\ userTable[UserId(p)] # NoRow
             \/ /\ calls[p].result = "AUTH_EMAIL_EXISTS" /\ calls[p].class = "AppException"
                /\ userTable[UserId(p)] = NoRow

====
